---- MODULE Spec2Model ----
(***************************************************************************)
(* EC2 instance scheduler (dnisha/aws_instance_schedular).                 *)
(*                                                                         *)
(* The module models the three temporal matchers                           *)
(*   should_execute     of src/app.py                 (minute match),      *)
(*   should_execute     of src/aws_scheduler/app.py   (projection, <=),    *)
(*   should_process_run of src/cron_checker.py        (minute match),      *)
(* the instance filter get_filtered_ec2_instances, the action resolver     *)
(* instance_action and the two sweeps (scan_for_action of                  *)
(* src/aws_scheduler/app.py, get_all_active_schedules of src/app.py).      *)
(*                                                                         *)
(* Text is modelled as a sequence of one-character strings, so that        *)
(* int(), str() and the whitespace split are computed, not assumed.        *)
(***************************************************************************)
EXTENDS Integers, Sequences, FiniteSets, TLC

VARIABLES
    now,              \* the wall clock, the value datetime.now() returns
    cron_expression,  \* argument of a direct matcher call
    until_date,       \* argument of a direct matcher call
    ret,              \* what each matcher returned to its direct caller
    app,              \* the application that runs: "app" or "aws_scheduler"
    store,            \* the config table: schedule name -> record (or Absent)
    ec2,              \* the compute API's view: instance id -> lifecycle state
    pc,               \* where the sweep stands
    active_schedules, \* the active schedules the sweep has still to visit
    schedule,         \* the loop variable: the schedule being visited
    instances,        \* the filtered snapshot of the schedule being visited
    will_execute,     \* the matcher's answer for the schedule being visited
    evaluated_at,     \* the clock value that answer was computed from
    work,             \* the instances of the snapshot still to be acted on
    calls,            \* the start/stop requests issued in this sweep, in order
    result,           \* the local result dict of the last instance_action
    applied_on_instances, \* the sweep's accumulator
    response,         \* how the last sweep ended
    other             \* the locals of a second, concurrent request of the sweep route

(***************************************************************************)
(* Text                                                                    *)
(***************************************************************************)
Digits == <<"0", "1", "2", "3", "4", "5", "6", "7", "8", "9">>

IsDigit(c) == \E i \in 1..Len(Digits) : Digits[i] = c

DigitVal(c) == (CHOOSE i \in 1..Len(Digits) : Digits[i] = c) - 1

\* the text of a token, written as its characters
T0 == <<"0">>
T1 == <<"1">>
T2 == <<"2">>
T5 == <<"5">>
T7 == <<"7">>
T05 == <<"0", "5">>
T22 == <<"2", "2">>
T30 == <<"3", "0">>
Star == <<"*">>
Junk == <<"x">>
Empty == <<>>

RECURSIVE DigitsVal(_)
DigitsVal(s) ==
    IF Len(s) = 0 THEN 0
    ELSE 10 * DigitsVal(SubSeq(s, 1, Len(s) - 1)) + DigitVal(s[Len(s)])

\* int(text) succeeds: an optional sign, then one or more decimal digits
IntParses(s) ==
    LET body == IF Len(s) > 0 /\ s[1] \in {"-", "+"} THEN Tail(s) ELSE s
    IN  Len(body) > 0 /\ \A i \in 1..Len(body) : IsDigit(body[i])

\* int(text), where it succeeds
IntOf(s) ==
    IF s[1] = "-" THEN 0 - DigitsVal(Tail(s))
    ELSE IF s[1] = "+" THEN DigitsVal(Tail(s))
    ELSE DigitsVal(s)

\* str(n) for n >= 0: the decimal digits, no padding
RECURSIVE StrOf(_)
StrOf(n) ==
    IF n < 10 THEN <<Digits[n + 1]>>
    ELSE Append(StrOf(n \div 10), Digits[(n % 10) + 1])

\* re.split(r'\s+', text.strip()) of the five form fields joined by one
\* blank each: empty fields vanish; the empty text splits into [''].
Split(fields) ==
    LET parts == SelectSeq(fields, LAMBDA f : Len(f) > 0)
    IN  IF Len(parts) = 0 THEN <<Empty>> ELSE parts

(***************************************************************************)
(* Calendar (datetime.date)                                                *)
(***************************************************************************)
IsLeap(y) == (y % 4 = 0) /\ ((y % 100 # 0) \/ (y % 400 = 0))

DaysInMonth(y, m) ==
    IF m = 2 THEN (IF IsLeap(y) THEN 29 ELSE 28)
    ELSE IF m \in {4, 6, 9, 11} THEN 30
    ELSE 31

RECURSIVE DaysBeforeMonth(_, _)
DaysBeforeMonth(y, m) ==
    IF m = 1 THEN 0 ELSE DaysBeforeMonth(y, m - 1) + DaysInMonth(y, m - 1)

\* date.toordinal(): 1 is 0001-01-01
ToOrdinal(d) ==
    LET y1 == d.year - 1
    IN  y1 * 365 + (y1 \div 4) - (y1 \div 100) + (y1 \div 400)
        + DaysBeforeMonth(d.year, d.month) + d.day

\* date.weekday(): 0 is Monday, 6 is Sunday
Weekday(d) == (ToOrdinal(d) + 6) % 7

ValidDate(y, m, d) ==
    /\ y \in 1..9999
    /\ m \in 1..12
    /\ d \in 1..DaysInMonth(y, m)

MkDate(y, m, d) == [year |-> y, month |-> m, day |-> d]

NextDay(d) ==
    IF d.day < DaysInMonth(d.year, d.month) THEN MkDate(d.year, d.month, d.day + 1)
    ELSE IF d.month < 12 THEN MkDate(d.year, d.month + 1, 1)
    ELSE MkDate(d.year + 1, 1, 1)

\* date + timedelta(days=k), k >= 0
RECURSIVE AddDays(_, _)
AddDays(d, k) == IF k = 0 THEN d ELSE AddDays(NextDay(d), k - 1)

DateOf(t) == MkDate(t.year, t.month, t.day)

DateKey(d) == <<d.year, d.month, d.day>>

TimeKey(t) == <<t.year, t.month, t.day, t.hour, t.minute, t.second, t.microsecond>>

RECURSIVE LexLess(_, _)
LexLess(a, b) ==
    IF Len(a) = 0 THEN FALSE
    ELSE IF a[1] # b[1] THEN a[1] < b[1]
    ELSE LexLess(Tail(a), Tail(b))

\* the expiration test never firing
DateAfter_never(a, b) == FALSE

DateAfter(a, b) == LexLess(DateKey(b), DateKey(a))

TimeLeq(a, b) == ~LexLess(TimeKey(b), TimeKey(a))

(***************************************************************************)
(* Python values handed to the matchers                                    *)
(***************************************************************************)
None == [type |-> "NoneType"]

\* a str holding an expiration date, character by character
Str(chars) == [type |-> "str", text |-> chars]

\* a str holding a timing rule: its fields, joined by single blanks
Cron(fields) == [type |-> "str", fields |-> fields]

IsNone(v) == v.type = "NoneType"

\* bool(v) of None or a str
Truthy(v) == v.type = "str" /\ Len(v.text) > 0

RECURSIVE LStrip(_)
LStrip(s) == IF Len(s) > 0 /\ s[1] = " " THEN LStrip(Tail(s)) ELSE s

RECURSIVE RStrip(_)
RStrip(s) ==
    IF Len(s) > 0 /\ s[Len(s)] = " " THEN RStrip(SubSeq(s, 1, Len(s) - 1)) ELSE s

\* text.strip()
Strip(s) == RStrip(LStrip(s))

\* the positions of the character c in s
Positions(s, c) == {i \in 1..Len(s) : s[i] = c}

AllDigits(s) == Len(s) > 0 /\ \A i \in 1..Len(s) : IsDigit(s[i])

\* datetime.strptime(text, "%Y-%m-%d").date(): a four-digit year, a month and
\* a day of one or two digits, separated by '-', naming a calendar date;
\* anything else is a ValueError.
StrptimeParts(s) ==
    LET dash == Positions(s, "-")
        p1 == CHOOSE i \in dash : \A j \in dash : i <= j
        p2 == CHOOSE i \in dash : \A j \in dash : j <= i
    IN  <<SubSeq(s, 1, p1 - 1), SubSeq(s, p1 + 1, p2 - 1), SubSeq(s, p2 + 1, Len(s))>>

StrptimeOk(s) ==
    /\ Cardinality(Positions(s, "-")) = 2
    /\ LET p == StrptimeParts(s)
       IN  /\ AllDigits(p[1]) /\ Len(p[1]) = 4
           /\ AllDigits(p[2]) /\ Len(p[2]) \in 1..2
           /\ AllDigits(p[3]) /\ Len(p[3]) \in 1..2
           /\ ValidDate(DigitsVal(p[1]), DigitsVal(p[2]), DigitsVal(p[3]))

Strptime(s) ==
    LET p == StrptimeParts(s)
    IN  MkDate(DigitsVal(p[1]), DigitsVal(p[2]), DigitsVal(p[3]))

(***************************************************************************)
(* Temporal matcher of src/app.py and src/cron_checker.py                  *)
(* A result is "True", "False" or the name of the exception raised.        *)
(***************************************************************************)
\* dow_check without the Sunday special case: cron_dow - 1 for every value
dow_check_no_sunday_case(day_of_week, t) ==
    IF day_of_week = Star THEN "True"
    ELSE IF ~IntParses(day_of_week) THEN "ValueError"
    ELSE IF (IntOf(day_of_week) - 1) # Weekday(DateOf(t)) THEN "False" ELSE "True"

\* the day-of-week check, reached when the other four fields matched
dow_check(day_of_week, t) ==
    IF day_of_week = Star THEN "True"
    ELSE IF ~IntParses(day_of_week) THEN "ValueError"
    ELSE LET cron_dow == IntOf(day_of_week)
         IN  IF cron_dow = 0 \/ cron_dow = 7
             THEN (IF Weekday(DateOf(t)) # 6 THEN "False" ELSE "True")
             ELSE (IF (cron_dow - 1) # Weekday(DateOf(t)) THEN "False" ELSE "True")

\* fields_check with the day-of-month comparison left out
fields_check_no_day(parts, t) ==
    IF parts[1] # Star /\ StrOf(t.minute) # parts[1] THEN "False"
    ELSE IF parts[2] # Star /\ StrOf(t.hour) # parts[2] THEN "False"
    ELSE IF parts[4] # Star /\ StrOf(t.month) # parts[4] THEN "False"
    ELSE dow_check(parts[5], t)

\* the four textual field checks: a field is '*' or equals str(component)
fields_check(parts, t) ==
    IF parts[1] # Star /\ StrOf(t.minute) # parts[1] THEN "False"
    ELSE IF parts[2] # Star /\ StrOf(t.hour) # parts[2] THEN "False"
    ELSE IF parts[3] # Star /\ StrOf(t.day) # parts[3] THEN "False"
    ELSE IF parts[4] # Star /\ StrOf(t.month) # parts[4] THEN "False"
    ELSE dow_check(parts[5], t)

\* the body of the try block
minute_match_try(cron, until, t) ==
    IF IsNone(cron) THEN "AttributeError"
    ELSE LET cron_parts == Split(cron.fields)
         IN  IF Len(cron_parts) # 5 THEN "ValueError"
             ELSE IF IsNone(until) THEN "TypeError"
             ELSE IF ~StrptimeOk(until.text) THEN "ValueError"
             ELSE IF DateAfter(DateOf(t), Strptime(until.text)) THEN "False"
             ELSE fields_check(cron_parts, t)

\* except Exception: log and return False
app_should_execute(cron, until, t) ==
    LET r == minute_match_try(cron, until, t)
    IN  IF r \in {"True", "False"} THEN r ELSE "False"

should_process_run(cron, until, t) ==
    LET r == minute_match_try(cron, until, t)
    IN  IF r \in {"True", "False"} THEN r ELSE "False"

(***************************************************************************)
(* Temporal matcher of src/aws_scheduler/app.py                            *)
(***************************************************************************)
\* now.<component> if the field is '*', else int(field)
field_or_now(field, component) == IF field = Star THEN component ELSE IntOf(field)

\* the four int() conversions succeed
fields_parse(parts) ==
    \A i \in 1..4 : parts[i] = Star \/ IntParses(parts[i])

\* the date the rule is projected on: today with the literal day and month,
\* or, with a day of week, the next date having it (which replaces both)
target_date(parts, t) ==
    IF parts[5] # Star
    THEN LET cron_dow == IntOf(parts[5])
             current_dow == (Weekday(DateOf(t)) + 1) % 7
             days_to_add == (cron_dow - current_dow) % 7
         IN  AddDays(DateOf(t), days_to_add)
    ELSE MkDate(t.year, field_or_now(parts[4], t.month), field_or_now(parts[3], t.day))

\* datetime(year, month, day, hour, minute) accepts its arguments
DatetimeOk(d, h, mi) ==
    ValidDate(d.year, d.month, d.day) /\ h \in 0..23 /\ mi \in 0..59

MkTime(d, h, mi, s, us) ==
    [year |-> d.year, month |-> d.month, day |-> d.day,
     hour |-> h, minute |-> mi, second |-> s, microsecond |-> us]

projection_try(cron, until, t) ==
    IF IsNone(cron) THEN "AttributeError"
    ELSE LET parts == Split(cron.fields)
         IN  IF Len(parts) # 5 THEN "ValueError"
             ELSE IF Truthy(until) /\ ~StrptimeOk(Strip(until.text)) THEN "ValueError"
             ELSE IF Truthy(until) /\ DateAfter(DateOf(t), Strptime(Strip(until.text)))
                  THEN "False"
             ELSE IF ~fields_parse(parts) THEN "ValueError"
             ELSE IF parts[5] # Star /\ ~IntParses(parts[5]) THEN "ValueError"
             ELSE LET d == target_date(parts, t)
                      h == field_or_now(parts[2], t.hour)
                      mi == field_or_now(parts[1], t.minute)
                  IN  IF d.year > 9999 THEN "OverflowError"
                      ELSE IF ~DatetimeOk(d, h, mi) THEN "False"
                      ELSE IF TimeLeq(t, MkTime(d, h, mi, 0, 0)) THEN "True"
                      ELSE "False"

\* the matcher without its except clause
aws_should_execute_no_except(cron, until, t) == projection_try(cron, until, t)

aws_should_execute(cron, until, t) ==
    LET r == projection_try(cron, until, t)
    IN  IF r \in {"True", "False"} THEN r ELSE "False"

(***************************************************************************)
(* Configuration (module level of both applications)                       *)
(***************************************************************************)
REGIONS_EC2 == <<"eu-central-1", "us-east-1", "ap-south-1">>

STATE_FILTER_INCLUDE_PATTERNS == {"pending", "running", "stopping", "stopped", "shutting-down"}

NAME_FILTER_EXCLUDE_PATTERNS == <<<<"C", "I">>, <<"t", "e", "r", "m", "i", "n", "a", "t", "e", "d">>>>

(***************************************************************************)
(* str.lower() and the substring test                                      *)
(***************************************************************************)
UpperCase == <<"A", "B", "C", "D", "E", "F", "G", "H", "I", "J", "K", "L", "M", "N", "O", "P", "Q", "R", "S", "T", "U", "V", "W", "X", "Y", "Z">>

LowerCase == <<"a", "b", "c", "d", "e", "f", "g", "h", "i", "j", "k", "l", "m", "n", "o", "p", "q", "r", "s", "t", "u", "v", "w", "x", "y", "z">>

LowerChar(c) ==
    IF \E i \in 1..Len(UpperCase) : UpperCase[i] = c
    THEN LowerCase[CHOOSE i \in 1..Len(UpperCase) : UpperCase[i] = c]
    ELSE c

\* text.lower()
Lower(s) == [i \in 1..Len(s) |-> LowerChar(s[i])]

\* sub in text
Contains(sub, s) ==
    \E k \in 0..(Len(s) - Len(sub)) : SubSeq(s, k + 1, k + Len(sub)) = sub

(***************************************************************************)
(* Instance filter: get_filtered_ec2_instances                             *)
(***************************************************************************)
NoTag == "-"

\* The machines of the account: region, Name tag ('' when there is none) and
\* ScheduledFor tag.  Their lifecycle state is the variable ec2.
InstanceIds == <<"i-web", "i-db", "i-free", "i-api", "i-ci", "i-job", "i-old">>

Ids == {InstanceIds[k] : k \in 1..Len(InstanceIds)}

Catalog ==
    [id \in Ids |->
        CASE id = "i-web"  -> [region |-> "eu-central-1", Name |-> <<"w", "e", "b">>, ScheduledFor |-> "nightly"]
          [] id = "i-db"   -> [region |-> "eu-central-1", Name |-> <<"d", "b">>, ScheduledFor |-> "nightly"]
          [] id = "i-free" -> [region |-> "eu-central-1", Name |-> <<"f", "r", "e", "e">>, ScheduledFor |-> NoTag]
          [] id = "i-api"  -> [region |-> "us-east-1", Name |-> <<"a", "p", "i">>, ScheduledFor |-> "nightly"]
          [] id = "i-ci"   -> [region |-> "us-east-1", Name |-> <<"c", "i", "-", "r", "u", "n", "n", "e", "r">>, ScheduledFor |-> "nightly"]
          [] id = "i-job"  -> [region |-> "ap-south-1", Name |-> Empty, ScheduledFor |-> "morning"]
          [] id = "i-old"  -> [region |-> "ap-south-1", Name |-> <<"o", "l", "d", "-", "T", "e", "r", "m", "i", "n", "a", "t", "e", "d">>, ScheduledFor |-> "nightly"]]

\* the machines' lifecycle states when the application starts
InitialStates ==
    [id \in Ids |->
        CASE id = "i-job" -> "stopped"
          [] id = "i-api" -> "stopped"
          [] id = "i-old" -> "terminated"
          [] OTHER -> "running"]

\* name_included with pattern and name compared as written
name_included_case_sensitive(name) ==
    \A k \in 1..Len(NAME_FILTER_EXCLUDE_PATTERNS) :
        ~Contains(NAME_FILTER_EXCLUDE_PATTERNS[k], name)

\* the name passes the exclude patterns (compared in lower case)
name_included(name) ==
    \A k \in 1..Len(NAME_FILTER_EXCLUDE_PATTERNS) :
        ~Contains(Lower(NAME_FILTER_EXCLUDE_PATTERNS[k]), Lower(name))

\* describe_instances with the state filter and, for a truthy for_tag, the
\* tag filter: what the compute API returns for one region
described(region, for_tag, states) ==
    SelectSeq(InstanceIds, LAMBDA id :
        /\ Catalog[id].region = region
        /\ states[id] \in STATE_FILTER_INCLUDE_PATTERNS
        /\ (for_tag # "" => Catalog[id].ScheduledFor = for_tag))

instance_data(id, states) ==
    [InstanceId |-> id, Name |-> Catalog[id].Name, CurrentState |-> states[id]]

RECURSIVE MapData(_, _)
MapData(ids, states) ==
    IF Len(ids) = 0 THEN <<>>
    ELSE <<instance_data(ids[1], states)>> \o MapData(Tail(ids), states)

\* get_filtered_ec2_instances that sets result[region] only for a region
\* with instances
get_filtered_ec2_instances_nonempty(for_tag, states) ==
    LET hit(region) == MapData(SelectSeq(described(region, for_tag, states),
                                         LAMBDA id : name_included(Catalog[id].Name)),
                               states)
    IN  [region \in {REGIONS_EC2[k] : k \in 1..Len(REGIONS_EC2)} \cap
                    {Catalog[id].region : id \in {i \in Ids : hit(Catalog[i].region) # <<>>}}
            |-> hit(region)]

get_filtered_ec2_instances(for_tag, states) ==
    [region \in {REGIONS_EC2[k] : k \in 1..Len(REGIONS_EC2)} |->
        MapData(SelectSeq(described(region, for_tag, states),
                          LAMBDA id : name_included(Catalog[id].Name)),
                states)]

(***************************************************************************)
(* Action resolver: instance_action                                        *)
(***************************************************************************)
START == <<"s", "t", "a", "r", "t">>
STOP == <<"s", "t", "o", "p">>

NoRequest == "-"

\* requested_op with the action compared as written, not in lower case
requested_op_case_sensitive(action, current_state) ==
    IF action = START /\ current_state = "stopped" THEN "start_instances"
    ELSE IF action = STOP /\ current_state = "running" THEN "stop_instances"
    ELSE NoRequest

\* requested_op without the test of current_state
requested_op_any_state(action, current_state) ==
    IF Lower(action) = START THEN "start_instances"
    ELSE IF Lower(action) = STOP THEN "stop_instances"
    ELSE NoRequest

\* the compute-API request instance_action issues, if any
requested_op(action, current_state) ==
    IF Lower(action) = START /\ current_state = "stopped" THEN "start_instances"
    ELSE IF Lower(action) = STOP /\ current_state = "running" THEN "stop_instances"
    ELSE NoRequest

FreshResult ==
    [schedules_processed |-> 0, instances_modified |-> 0,
     state_changes |-> <<>>, errors |-> <<>>]

state_change(op, instance_id, instance_name, region, schedule_name) ==
    [instance_id |-> instance_id, instance_name |-> instance_name, region |-> region,
     ScheduledFor |-> schedule_name,
     action |-> IF op = "start_instances" THEN "start" ELSE "stop",
     from_state |-> IF op = "start_instances" THEN "stopped" ELSE "running",
     to_state |-> IF op = "start_instances" THEN "pending" ELSE "stopping"]

\* except ClientError of src/aws_scheduler/app.py: an error record is appended
aws_on_client_error(instance_id, region) ==
    [raised |-> "-",
     result |-> [FreshResult EXCEPT
                    !.errors = <<[instance_id |-> instance_id, region |-> region,
                                  error |-> "ClientError"]>>]]

\* except ClientError of src/app.py: building the record evaluates
\* schedule['action'], where schedule is the module's view function, so the
\* handler itself raises TypeError and nothing is appended
app_on_client_error(instance_id, region) ==
    [raised |-> "TypeError", result |-> FreshResult]

\* One call of instance_action; api_ok says whether the compute API accepts
\* the request.  op is the request issued, raised the exception that leaves
\* the function ("-" for none), result its local result dict at that point.
\* The function has no return statement: its caller receives None.
instance_action(which, action, current_state, instance_id, instance_name, region, schedule_name, api_ok) ==
    LET op == requested_op(action, current_state)
    IN  IF op = NoRequest
        THEN [op |-> op, raised |-> "-", result |-> FreshResult]
        ELSE IF api_ok
        THEN [op |-> op, raised |-> "-",
              result |-> [FreshResult EXCEPT
                            !.state_changes =
                                <<state_change(op, instance_id, instance_name,
                                               region, schedule_name)>>,
                            !.instances_modified = 1]]
        ELSE LET h == IF which = "app" THEN app_on_client_error(instance_id, region)
                      ELSE aws_on_client_error(instance_id, region)
             IN  [op |-> op, raised |-> h.raised, result |-> h.result]

(***************************************************************************)
(* The config table and the sweep                                          *)
(***************************************************************************)
Regions == {REGIONS_EC2[k] : k \in 1..Len(REGIONS_EC2)}

ScheduleNames == <<"nightly", "morning", "">>

Names == {ScheduleNames[k] : k \in 1..Len(ScheduleNames)}

\* a record of the config table; until = None stands for a record without
\* the 'until' attribute
Schedule(name, action, active, cron, until) ==
    [name |-> name, action |-> action, active |-> active,
     cron_expression |-> cron, until |-> until]

\* db_get_items without the filter expression: every stored record
get_all_schedules(table) ==
    LET hit == SelectSeq(ScheduleNames, LAMBDA n : Len(table[n]) = 1)
    IN  [k \in 1..Len(hit) |-> table[hit[k]][1]]

\* db_get_items with the filter active = "true": the stored records that
\* pass it, in table (name) order
get_active_schedules(table) ==
    LET hit == SelectSeq(ScheduleNames,
                         LAMBDA n : Len(table[n]) = 1 /\ table[n][1].active = "true")
    IN  [k \in 1..Len(hit) |-> table[hit[k]][1]]

\* the matcher each application's sweep calls
should_execute(which, item, t) ==
    IF which = "app"
    THEN app_should_execute(item.cron_expression, item.until, t)
    ELSE aws_should_execute(item.cron_expression, item.until, t)

\* for region, instances in instances.items(): for instance in instances
RECURSIVE Flatten(_, _)
Flatten(snapshot, regions) ==
    IF Len(regions) = 0 THEN <<>>
    ELSE [k \in 1..Len(snapshot[regions[1]]) |->
             [region |-> regions[1], instance |-> snapshot[regions[1]][k]]]
         \o Flatten(snapshot, Tail(regions))

NoResponse == [kind |-> "-", value |-> "-"]

\* no second request of the sweep route is running
NotRunning ==
    [pc |-> "idle", active_schedules |-> <<>>, schedule |-> <<>>, instances |-> <<>>,
     will_execute |-> "-", work |-> <<>>, calls |-> <<>>]

svars == <<app, store, ec2, pc, active_schedules, schedule, instances, will_execute,
           evaluated_at, work, calls, result, applied_on_instances, response, other>>

vars == <<now, cron_expression, until_date, ret, svars>>

\* the sweep's locals once it has ended
locals_cleared ==
    /\ active_schedules' = <<>>
    /\ schedule' = <<>>
    /\ instances' = <<>>
    /\ will_execute' = "-"
    /\ evaluated_at' = <<>>
    /\ work' = <<>>
    /\ result' = <<>>

\* the sweep starts (the interval job fires, or the route is requested):
\* applied_on_instances = [] and the active schedules are loaded
Load ==
    /\ pc = "idle"
    /\ pc' = "loop"
    /\ active_schedules' = get_active_schedules(store)
    /\ applied_on_instances' = "[]"
    /\ calls' = <<>>
    /\ response' = NoResponse
    /\ UNCHANGED <<other, now, cron_expression, until_date, ret, app, store, ec2, schedule,
                   instances, will_execute, evaluated_at, work, result>>

\* LoadFails with the failure swallowed: the sweep goes on with the items
\* read before the failure (none)
LoadFails_swallowed ==
    /\ pc = "idle"
    /\ pc' = "loop"
    /\ active_schedules' = <<>>
    /\ applied_on_instances' = "[]"
    /\ calls' = <<>>
    /\ response' = NoResponse
    /\ UNCHANGED <<other, now, cron_expression, until_date, ret, app, store, ec2, schedule,
                   instances, will_execute, evaluated_at, work, result>>

\* the sweep starts and the scan of the config table is rejected: db_get_items
\* has no handler, neither has the sweep, so ClientError leaves the sweep
\* before its loop
LoadFails ==
    /\ pc = "idle"
    /\ pc' = "idle"
    /\ applied_on_instances' = "[]"
    /\ calls' = <<>>
    /\ response' = [kind |-> "raised", value |-> "ClientError(Scan)"]
    /\ UNCHANGED <<other, now, cron_expression, until_date, ret, app, store, ec2,
                   active_schedules, schedule, instances, will_execute,
                   evaluated_at, work, result>>

\* Return with a clean-up of the table: the schedules whose expiration has
\* passed are put back with active = 'false'
Return_deactivates_expired ==
    /\ pc = "loop"
    /\ active_schedules = <<>>
    /\ pc' = "idle"
    /\ response' = [kind |-> "returned", value |-> applied_on_instances]
    /\ locals_cleared
    /\ store' = [n \in DOMAIN store |->
                    IF store[n] # <<>> /\ ~IsNone(store[n][1].until)
                       /\ StrptimeOk(store[n][1].until.text)
                       /\ ToOrdinal(DateOf(now)) > ToOrdinal(Strptime(store[n][1].until.text))
                    THEN <<[store[n][1] EXCEPT !.active = "false"]>>
                    ELSE store[n]]
    /\ UNCHANGED <<other, now, cron_expression, until_date, ret, app, ec2,
                   calls, applied_on_instances>>

\* the loop over the schedules is exhausted: the sweep returns
Return ==
    /\ pc = "loop"
    /\ active_schedules = <<>>
    /\ pc' = "idle"
    /\ response' = [kind |-> "returned", value |-> applied_on_instances]
    /\ locals_cleared
    /\ UNCHANGED <<other, now, cron_expression, until_date, ret, app, store, ec2,
                   calls, applied_on_instances>>

\* for schedule in active_schedules:
\*     instances = get_filtered_ec2_instances(schedule['name'])
Describe ==
    /\ pc = "loop"
    /\ active_schedules # <<>>
    /\ schedule' = <<active_schedules[1]>>
    /\ active_schedules' = Tail(active_schedules)
    /\ instances' = <<get_filtered_ec2_instances(active_schedules[1].name, ec2)>>
    /\ pc' = "evaluate"
    /\ UNCHANGED <<other, now, cron_expression, until_date, ret, app, store, ec2,
                   will_execute, evaluated_at, work, calls,
                   result, applied_on_instances, response>>

\* describe_instances is rejected for some region: get_filtered_ec2_instances
\* has no handler, neither has the sweep, so ClientError leaves the sweep
DescribeFails ==
    /\ pc = "loop"
    /\ active_schedules # <<>>
    /\ pc' = "idle"
    /\ response' = [kind |-> "raised", value |-> "ClientError(DescribeInstances)"]
    /\ locals_cleared
    /\ UNCHANGED <<other, now, cron_expression, until_date, ret, app, store, ec2,
                   calls, applied_on_instances>>

\* src/app.py reads schedule['until'] on its way to the matcher: a record
\* without the attribute raises KeyError out of the sweep
EvaluateKeyError ==
    /\ pc = "evaluate"
    /\ app = "app"
    /\ IsNone(schedule[1].until)
    /\ pc' = "idle"
    /\ response' = [kind |-> "raised", value |-> "KeyError"]
    /\ locals_cleared
    /\ UNCHANGED <<other, now, cron_expression, until_date, ret, app, store, ec2,
                   calls, applied_on_instances>>

\* Evaluate with the test 'if will_execute == True' left out: the instances
\* are acted on whatever the matcher answered
Evaluate_acts_anyway ==
    /\ pc = "evaluate"
    /\ ~(app = "app" /\ IsNone(schedule[1].until))
    /\ LET w == should_execute(app, schedule[1], now)
           todo == Flatten(instances[1], REGIONS_EC2)
       IN  /\ will_execute' = IF w = "True" THEN "True" ELSE "False"
           /\ evaluated_at' = <<now>>
           /\ work' = todo
           /\ pc' = IF todo # <<>> THEN "act" ELSE "loop"
           /\ instances' = IF todo # <<>> THEN instances ELSE <<>>
           /\ UNCHANGED <<active_schedules, schedule, result, response>>
    /\ UNCHANGED <<other, now, cron_expression, until_date, ret, app, store, ec2,
                   calls, applied_on_instances>>

\* will_execute = should_execute(...), read from the clock at this moment.
\* A due schedule with instances has them acted on; any other is left for
\* the next schedule (the snapshot is dead from there on).  An exception
\* leaving the matcher would leave the sweep.
Evaluate ==
    /\ pc = "evaluate"
    /\ ~(app = "app" /\ IsNone(schedule[1].until))
    /\ LET w == should_execute(app, schedule[1], now)
           todo == Flatten(instances[1], REGIONS_EC2)
       IN  IF w \notin {"True", "False"}
           THEN /\ pc' = "idle"
                /\ response' = [kind |-> "raised", value |-> w]
                /\ locals_cleared
           ELSE /\ will_execute' = w
                /\ evaluated_at' = <<now>>
                /\ work' = IF w = "True" THEN todo ELSE <<>>
                /\ pc' = IF w = "True" /\ todo # <<>> THEN "act" ELSE "loop"
                /\ instances' = IF w = "True" /\ todo # <<>> THEN instances ELSE <<>>
                /\ UNCHANGED <<active_schedules, schedule, result, response>>
    /\ UNCHANGED <<other, now, cron_expression, until_date, ret, app, store, ec2,
                   calls, applied_on_instances>>

\* the compute API's effect of an accepted request on the instance
accepted(op, state) ==
    IF op = "start_instances" /\ state = "stopped" THEN "pending"
    ELSE IF op = "stop_instances" /\ state \in {"running", "pending"} THEN "stopping"
    ELSE state

\* applied_on_instances = instance_action(...) for the next instance of the
\* snapshot; api_ok is the compute API's answer to the request, if one is made
Act(api_ok) ==
    /\ pc = "act"
    /\ LET item == work[1]
           out == instance_action(app, schedule[1].action, item.instance.CurrentState,
                                  item.instance.InstanceId, item.instance.Name,
                                  item.region, schedule[1].name, api_ok)
       IN  /\ (out.op = NoRequest => api_ok)
           /\ calls' = IF out.op = NoRequest THEN calls
                       ELSE Append(calls, [op |-> out.op,
                                           InstanceId |-> item.instance.InstanceId,
                                           region |-> item.region,
                                           schedule |-> schedule[1].name,
                                           ok |-> api_ok])
           /\ ec2' = IF out.op # NoRequest /\ api_ok
                     THEN [ec2 EXCEPT ![item.instance.InstanceId] = accepted(out.op, @)]
                     ELSE ec2
           /\ IF out.raised # "-"
              THEN /\ pc' = "idle"
                   /\ response' = [kind |-> "raised", value |-> out.raised]
                   /\ locals_cleared
                   /\ UNCHANGED applied_on_instances
              ELSE /\ applied_on_instances' = "None"
                   /\ result' = <<out.result>>
                   /\ work' = Tail(work)
                   /\ pc' = IF Len(work) = 1 THEN "loop" ELSE "act"
                   /\ instances' = IF Len(work) = 1 THEN <<>> ELSE instances
                   /\ UNCHANGED <<active_schedules, schedule, will_execute,
                                  evaluated_at, response>>
    /\ UNCHANGED <<other, now, cron_expression, until_date, ret, app, store>>

\* the compute service completes a transition it has begun
Ec2Progress ==
    /\ \E id \in Ids :
        /\ ec2[id] \in {"pending", "stopping", "shutting-down"}
        /\ ec2' = [ec2 EXCEPT ![id] =
                      IF @ = "pending" THEN "running"
                      ELSE IF @ = "stopping" THEN "stopped"
                      ELSE "terminated"]
    /\ UNCHANGED <<other, now, cron_expression, until_date, ret, app, store, pc,
                   active_schedules, schedule, instances, will_execute,
                   evaluated_at, work, calls, result, applied_on_instances, response>>

(***************************************************************************)
(* Inputs of the direct matcher calls                                      *)
(***************************************************************************)
\* the number of consecutive calendar days the clock ranges over
NumDays == 10

\* Saturday 2024-12-28: the window crosses a year end and holds the Sundays
\* 2024-12-29 and 2025-01-05
FirstDay == MkDate(2024, 12, 28)

Days == {AddDays(FirstDay, k) : k \in 0..(NumDays - 1)}

\* times of day around 22:00, to the microsecond
TimesOfDay ==
    {<<21, 59, 0, 0>>, <<22, 0, 0, 0>>, <<22, 0, 0, 1>>, <<22, 0, 30, 0>>, <<22, 1, 0, 0>>}

Nows == {MkTime(d, c[1], c[2], c[3], c[4]) : d \in Days, c \in TimesOfDay}

MinuteFields == {Star, T0, Junk}
HourFields == {Star, T22}
DomFields == {Star, T5, T05, T30}
MonthFields == {Star, T2}
DowFields == {Star, T0, T7, T1, Junk}

FiveFieldRules ==
    {Cron(<<mi, h, d, mo, w>>) :
        mi \in MinuteFields, h \in HourFields, d \in DomFields,
        mo \in MonthFields, w \in DowFields}

\* rules whose field count is not five (an empty form field, a sixth field,
\* the empty text) and a missing rule
MalformedRules ==
    {Cron(<<Empty, T22, Star, Star, Star>>),
     Cron(<<T0, T22, Star, Star, Star, Star>>),
     Cron(<<Empty, Empty, Empty, Empty, Empty>>),
     None}

Rules == FiveFieldRules \cup MalformedRules

D_2025_01_01 == <<"2", "0", "2", "5", "-", "0", "1", "-", "0", "1">>
D_2024_12_31 == <<"2", "0", "2", "4", "-", "1", "2", "-", "3", "1">>
D_2025_02_30 == <<"2", "0", "2", "5", "-", "0", "2", "-", "3", "0">>
D_2025_02_10 == <<"2", "0", "2", "5", "-", "0", "2", "-", "1", "0">>

\* no expiration (None, ''), a date inside the window and one after it, blank
\* and unparseable text, an impossible date
Untils ==
    {None, Str(Empty), Str(D_2025_01_01), Str(D_2025_02_10), Str(<<" ">>), Str(Junk),
     Str(D_2025_02_30)}

Matchers == {"app.should_execute", "aws_scheduler.should_execute", "cron_checker.should_process_run"}

NotCalled == [fn |-> "-", value |-> "-"]

\* no sweep is running and the table is empty
SweepIdle ==
    /\ app = "aws_scheduler"
    /\ store = [n \in Names |-> <<>>]
    /\ ec2 = InitialStates
    /\ pc = "idle"
    /\ active_schedules = <<>>
    /\ schedule = <<>>
    /\ instances = <<>>
    /\ will_execute = "-"
    /\ evaluated_at = <<>>
    /\ work = <<>>
    /\ calls = <<>>
    /\ result = <<>>
    /\ applied_on_instances = "[]"
    /\ response = NoResponse
    /\ other = NotRunning

InitMatcher ==
    /\ now \in Nows
    /\ cron_expression \in Rules
    /\ until_date \in Untils
    /\ ret = NotCalled
    /\ SweepIdle

\* a caller invokes should_execute of src/app.py
CallAppShouldExecute ==
    /\ ret = NotCalled
    /\ ret' = [fn |-> "app.should_execute",
               value |-> app_should_execute(cron_expression, until_date, now)]
    /\ UNCHANGED <<now, cron_expression, until_date, svars>>

\* a caller invokes should_execute of src/aws_scheduler/app.py
CallAwsShouldExecute ==
    /\ ret = NotCalled
    /\ ret' = [fn |-> "aws_scheduler.should_execute",
               value |-> aws_should_execute(cron_expression, until_date, now)]
    /\ UNCHANGED <<now, cron_expression, until_date, svars>>

\* the __main__ block of src/cron_checker.py invokes should_process_run
CallShouldProcessRun ==
    /\ ret = NotCalled
    /\ ret' = [fn |-> "cron_checker.should_process_run",
               value |-> should_process_run(cron_expression, until_date, now)]
    /\ UNCHANGED <<now, cron_expression, until_date, svars>>

NextMatcher ==
    \/ CallAppShouldExecute
    \/ CallAwsShouldExecute
    \/ CallShouldProcessRun

SpecMatcher == InitMatcher /\ [][NextMatcher]_vars

TypeOKMatcher == ret.value \in {"-", "True", "False"}

(***************************************************************************)
(* The sweep specification                                                 *)
(***************************************************************************)
\* the number of consecutive days, from 2025-01-01, the sweeps' clock covers
NumSweepDays == 1

\* the times of day at which sweeps may run
SweepTimes == {<<21, 59, 0, 0>>, <<22, 0, 0, 0>>, <<22, 1, 0, 0>>}

SweepNows ==
    {MkTime(AddDays(MkDate(2025, 1, 1), k), c[1], c[2], c[3], c[4]) :
        k \in 0..(NumSweepDays - 1), c \in SweepTimes}

R_22_00 == Cron(<<T0, T22, Star, Star, Star>>)
R_junk == Cron(<<Junk, T22, Star, Star, Star>>)
R_four == Cron(<<Empty, T22, Star, Star, Star>>)

\* the stored 'nightly' schedules: the action in several spellings, a valid
\* and two malformed rules, without expiration, expiring on the first day
\* and expired before it; and an inactive one
NightlySchedules ==
    {Schedule("nightly", a, "true", r, u) :
        a \in {<<"s", "t", "o", "p">>, <<"S", "t", "o", "p">>, <<"s", "t", "a", "r", "t">>, <<"r", "e", "b", "o", "o", "t">>},
        r \in {R_22_00, R_junk, R_four},
        u \in {None, Str(D_2025_01_01), Str(D_2024_12_31)}}
    \cup {Schedule("nightly", <<"s", "t", "o", "p">>, "false", R_22_00, Str(D_2025_01_01))}

MorningSchedules ==
    {Schedule("morning", <<"S", "T", "A", "R", "T">>, "true", R_22_00, Str(D_2025_01_01))}

\* a schedule stored under the empty name
UnnamedSchedules ==
    {Schedule("", <<"s", "t", "o", "p">>, "true", R_22_00, Str(D_2025_01_01))}

\* the config tables: any 'nightly' with or without 'morning'; and the
\* unnamed schedule alone and next to 'morning'
Stores ==
    {[n \in Names |-> IF n = "nightly" THEN a ELSE IF n = "morning" THEN b ELSE <<>>] :
        a \in {<<>>} \cup {<<x>> : x \in NightlySchedules},
        b \in {<<>>} \cup {<<x>> : x \in MorningSchedules}}
    \cup
    {[n \in Names |-> IF n = "nightly" THEN a ELSE IF n = "morning" THEN b ELSE <<c>>] :
        a \in {<<>>},
        b \in {<<>>} \cup {<<x>> : x \in MorningSchedules},
        c \in UnnamedSchedules}

\* the arguments of the __main__ block of src/cron_checker.py
MainCron == Cron(<<Star, Star, Star, Star, Star>>)
MainUntil == Str(<<"2", "0", "2", "5", "-", "0", "2", "-", "1", "0">>)

Init ==
    /\ now \in SweepNows
    /\ cron_expression = MainCron
    /\ until_date = MainUntil
    /\ ret = NotCalled
    /\ app \in {"app", "aws_scheduler"}
    /\ store \in Stores
    /\ ec2 = InitialStates
    /\ pc = "idle"
    /\ active_schedules = <<>>
    /\ schedule = <<>>
    /\ instances = <<>>
    /\ will_execute = "-"
    /\ evaluated_at = <<>>
    /\ work = <<>>
    /\ calls = <<>>
    /\ result = <<>>
    /\ applied_on_instances = "[]"
    /\ response = NoResponse
    /\ other = NotRunning

\* time passes
Tick ==
    /\ \E t \in SweepNows :
        /\ LexLess(TimeKey(now), TimeKey(t))
        /\ now' = t
    /\ UNCHANGED <<cron_expression, until_date, ret, svars>>

Next ==
    \/ Load
    \/ LoadFails
    \/ Describe
    \/ DescribeFails
    \/ EvaluateKeyError
    \/ Evaluate
    \/ \E api_ok \in BOOLEAN : Act(api_ok)
    \/ Return
    \/ Ec2Progress
    \/ Tick

Spec == Init /\ [][Next]_vars

TypeOK ==
    /\ pc \in {"idle", "loop", "evaluate", "act"}
    /\ will_execute \in {"-", "True", "False"}
    /\ \A id \in Ids : ec2[id] \in STATE_FILTER_INCLUDE_PATTERNS \cup {"terminated"}

(***************************************************************************)
(* Direct calls of the instance filter (the route /api/v1/instances)       *)
(***************************************************************************)
\* the for_tag values of the request: none ('' is not truthy), the two
\* schedule names and a name no instance is tagged with
TagSelectors == {"", "nightly", "morning", "weekend"}

\* the lifecycle states the machines are found in
StateChoices == [Ids -> {"running", "stopped", "terminated"}]

InitFilter ==
    /\ now \in {MkTime(MkDate(2025, 1, 1), 22, 0, 0, 0)}
    /\ cron_expression = MainCron
    /\ until_date = MainUntil
    /\ ret = NotCalled
    /\ app = "app"
    /\ store = [n \in Names |-> <<>>]
    /\ ec2 \in StateChoices
    /\ pc = "idle"
    /\ active_schedules = <<>>
    /\ schedule = <<>>
    /\ instances = <<>>
    /\ will_execute = "-"
    /\ evaluated_at = <<>>
    /\ work = <<>>
    /\ calls = <<>>
    /\ result = <<>>
    /\ applied_on_instances = "[]"
    /\ response = NoResponse
    /\ other = NotRunning

\* the view instances(): result = get_filtered_ec2_instances(for_tag)
CallGetFilteredEc2Instances ==
    /\ ret = NotCalled
    /\ \E for_tag \in TagSelectors :
        /\ instances' = <<get_filtered_ec2_instances(for_tag, ec2)>>
        /\ ret' = [fn |-> "get_filtered_ec2_instances", value |-> for_tag]
    /\ UNCHANGED <<other, now, cron_expression, until_date, app, store, ec2, pc,
                   active_schedules, schedule, will_execute, evaluated_at, work,
                   calls, result, applied_on_instances, response>>

NextFilter == CallGetFilteredEc2Instances

SpecFilter == InitFilter /\ [][NextFilter]_vars

(***************************************************************************)
(* Two requests of the sweep route of src/app.py at once.  The view        *)
(* get_all_active_schedules takes no lock and keeps no state: a second     *)
(* request runs the same code on its own locals (the variable other)       *)
(* against the same table and the same machines.                           *)
(***************************************************************************)
ovars == <<now, cron_expression, until_date, ret, app, store, pc, active_schedules,
           schedule, instances, will_execute, evaluated_at, work, calls, result,
           applied_on_instances, response>>

OtherLoad ==
    /\ other.pc = "idle"
    /\ other' = [NotRunning EXCEPT !.pc = "loop",
                                   !.active_schedules = get_active_schedules(store)]
    /\ UNCHANGED <<ovars, ec2>>

OtherReturn ==
    /\ other.pc = "loop"
    /\ other.active_schedules = <<>>
    /\ other' = [NotRunning EXCEPT !.calls = other.calls]
    /\ UNCHANGED <<ovars, ec2>>

OtherDescribe ==
    /\ other.pc = "loop"
    /\ other.active_schedules # <<>>
    /\ other' = [other EXCEPT
                    !.pc = "evaluate",
                    !.schedule = <<other.active_schedules[1]>>,
                    !.active_schedules = Tail(other.active_schedules),
                    !.instances = <<get_filtered_ec2_instances(other.active_schedules[1].name, ec2)>>]
    /\ UNCHANGED <<ovars, ec2>>

OtherEvaluate ==
    /\ other.pc = "evaluate"
    /\ LET w == IF IsNone(other.schedule[1].until) THEN "KeyError"
                ELSE should_execute("app", other.schedule[1], now)
           todo == Flatten(other.instances[1], REGIONS_EC2)
       IN  other' = IF w \notin {"True", "False"}
                    THEN [NotRunning EXCEPT !.calls = other.calls]
                    ELSE [other EXCEPT
                            !.will_execute = w,
                            !.work = IF w = "True" THEN todo ELSE <<>>,
                            !.pc = IF w = "True" /\ todo # <<>> THEN "act" ELSE "loop",
                            !.instances = IF w = "True" /\ todo # <<>> THEN @ ELSE <<>>]
    /\ UNCHANGED <<ovars, ec2>>

OtherAct(api_ok) ==
    /\ other.pc = "act"
    /\ LET item == other.work[1]
           out == instance_action("app", other.schedule[1].action, item.instance.CurrentState,
                                  item.instance.InstanceId, item.instance.Name,
                                  item.region, other.schedule[1].name, api_ok)
           log == IF out.op = NoRequest THEN other.calls
                  ELSE Append(other.calls, [op |-> out.op,
                                            InstanceId |-> item.instance.InstanceId,
                                            region |-> item.region,
                                            schedule |-> other.schedule[1].name,
                                            ok |-> api_ok])
       IN  /\ (out.op = NoRequest => api_ok)
           /\ ec2' = IF out.op # NoRequest /\ api_ok
                     THEN [ec2 EXCEPT ![item.instance.InstanceId] = accepted(out.op, @)]
                     ELSE ec2
           /\ other' = IF out.raised # "-"
                        THEN [NotRunning EXCEPT !.calls = log]
                        ELSE [other EXCEPT
                                !.calls = log,
                                !.work = Tail(other.work),
                                !.pc = IF Len(other.work) = 1 THEN "loop" ELSE "act",
                                !.instances = IF Len(other.work) = 1 THEN <<>> ELSE @]
    /\ UNCHANGED ovars

\* the table of the overlap runs: both schedules, active and due at 22:00
OverlapStore ==
    [n \in Names |->
        IF n = "nightly"
        THEN <<Schedule("nightly", <<"s", "t", "o", "p">>, "true", R_22_00, Str(D_2025_01_01))>>
        ELSE IF n = "morning"
        THEN <<Schedule("morning", <<"S", "T", "A", "R", "T">>, "true", R_22_00, Str(D_2025_01_01))>>
        ELSE <<>>]

InitOverlap ==
    /\ now = MkTime(MkDate(2025, 1, 1), 22, 0, 0, 0)
    /\ cron_expression = MainCron
    /\ until_date = MainUntil
    /\ ret = NotCalled
    /\ app = "app"
    /\ store = OverlapStore
    /\ ec2 = InitialStates
    /\ pc = "idle"
    /\ active_schedules = <<>>
    /\ schedule = <<>>
    /\ instances = <<>>
    /\ will_execute = "-"
    /\ evaluated_at = <<>>
    /\ work = <<>>
    /\ calls = <<>>
    /\ result = <<>>
    /\ applied_on_instances = "[]"
    /\ response = NoResponse
    /\ other = NotRunning

NextOverlap ==
    \/ Load
    \/ Describe
    \/ Evaluate
    \/ \E api_ok \in BOOLEAN : Act(api_ok)
    \/ Return
    \/ OtherLoad
    \/ OtherDescribe
    \/ OtherEvaluate
    \/ \E api_ok \in BOOLEAN : OtherAct(api_ok)
    \/ OtherReturn
    \/ Ec2Progress

SpecOverlap == InitOverlap /\ [][NextOverlap]_vars

(***************************************************************************)
(* Schedule creation: schedule_factory, called by the creation routes with *)
(* the posted fields, while the sweep runs on its own.                     *)
(***************************************************************************)
\* Python's True
PyTrue == [type |-> "bool", value |-> TRUE]

\* str(v)
PyStr(v) == IF v.type = "bool" THEN (IF v.value THEN <<"T", "r", "u", "e">> ELSE <<"F", "a", "l", "s", "e">>) ELSE v.text

\* the texts an 'active' attribute is stored as, against their characters
Spellings ==
    {<<"true", <<"t", "r", "u", "e">>>>, <<"false", <<"f", "a", "l", "s", "e">>>>,
     <<"yes", <<"y", "e", "s">>>>, <<"True", <<"T", "r", "u", "e">>>>,
     <<"TRUE", <<"T", "R", "U", "E">>>>, <<"Yes", <<"Y", "e", "s">>>>}

Text(chars) == (CHOOSE p \in Spellings : p[2] = chars)[1]

OneTime == <<"o", "n", "e", "-", "t", "i", "m", "e">>

TimingFields == {"minute", "hour", "day_of_month", "month", "week"}

\* schedule_factory with every data[...] read as data.get(..., default):
\* nothing is required, whatever was posted is persisted
schedule_factory_unvalidated(which, data) ==
    LET get(k, default) == IF k \in DOMAIN data THEN data[k] ELSE default
        status == Text(Lower(PyStr(get("status", Str(<<"f", "a", "l", "s", "e">>)))))
        cron == Cron(<<get("minute", Star), get("hour", Star), get("day_of_month", Star),
                       get("month", Star), get("week", Star)>>)
    IN  [raised |-> "-",
         item |-> <<[name |-> get("name", ""), type |-> get("type", <<>>),
                     action |-> get("action", <<>>), active |-> status,
                     cron_expression |-> cron, until |-> get("until", None)]>>]

\* schedule_factory with the status stored as it was given, not lower-cased
schedule_factory_status_as_given(which, data) ==
    LET typekey == IF which = "app" THEN "type" ELSE "schedule_type"
        onetime == which # "app" /\ typekey \in DOMAIN data /\ data[typekey] = OneTime
        read == TimingFields \cup {typekey, "name", "action"}
                    \cup (IF onetime THEN {} ELSE {"until"})
        status == Text(PyStr(IF "status" \in DOMAIN data THEN data["status"]
                             ELSE Str(<<"f", "a", "l", "s", "e">>)))
    IN  IF ~(read \subseteq DOMAIN data)
        THEN [raised |-> "KeyError", item |-> <<>>]
        ELSE [raised |-> "-",
              item |-> <<[name |-> data["name"], type |-> data[typekey],
                          action |-> data["action"], active |-> status,
                          cron_expression |-> Cron(<<data["minute"], data["hour"],
                                                     data["day_of_month"], data["month"],
                                                     data["week"]>>),
                          until |-> IF onetime THEN None ELSE data["until"]]>>]

\* schedule_factory(data): the fields are read with data[...], which raises
\* KeyError for a missing one, status with data.get; the record is built and
\* only then put.  The record of aws_scheduler carries schedule_type, and no
\* 'until' (None here) when the type is 'one-time'.
schedule_factory(which, data) ==
    LET typekey == IF which = "app" THEN "type" ELSE "schedule_type"
        onetime == which # "app" /\ typekey \in DOMAIN data /\ data[typekey] = OneTime
        read == TimingFields \cup {typekey, "name", "action"}
                    \cup (IF onetime THEN {} ELSE {"until"})
        status == Text(Lower(PyStr(IF "status" \in DOMAIN data THEN data["status"]
                                   ELSE Str(<<"f", "a", "l", "s", "e">>))))
    IN  IF ~(read \subseteq DOMAIN data)
        THEN [raised |-> "KeyError", item |-> <<>>]
        ELSE [raised |-> "-",
              item |-> <<[name |-> data["name"], type |-> data[typekey],
                          action |-> data["action"], active |-> status,
                          cron_expression |-> Cron(<<data["minute"], data["hour"],
                                                     data["day_of_month"], data["month"],
                                                     data["week"]>>),
                          until |-> IF onetime THEN None ELSE data["until"]]>>]

\* the posted fields of the creation runs
Recurring == <<"r", "e", "c", "u", "r", "r", "i", "n", "g">>

Posted(name, action, status) ==
    [k \in {"name", "type", "schedule_type", "action", "status", "until"} \cup TimingFields |->
        CASE k = "name" -> name
          [] k = "type" -> Recurring
          [] k = "schedule_type" -> Recurring
          [] k = "action" -> action
          [] k = "status" -> status
          [] k = "until" -> Str(D_2025_01_01)
          [] k = "minute" -> T0
          [] k = "hour" -> T22
          [] OTHER -> Star]

Without(data, k) == [j \in DOMAIN data \ {k} |-> data[j]]

PostedFull == Posted("nightly", <<"s", "t", "o", "p">>, Str(<<"T", "r", "u", "e">>))

CreateInputs ==
    {Without(PostedFull, k) : k \in DOMAIN PostedFull}
    \cup {Posted("nightly", <<"s", "t", "o", "p">>, st) :
            st \in {Str(<<"T", "r", "u", "e">>), Str(<<"f", "a", "l", "s", "e">>),
                    Str(<<"Y", "e", "s">>), PyTrue}}
    \cup {[PostedFull EXCEPT !["schedule_type"] = OneTime],
          [PostedFull EXCEPT !["until"] = Str(D_2024_12_31)],
          Posted("morning", <<"S", "T", "A", "R", "T">>, Str(<<"T", "R", "U", "E">>))}

\* what schedule_factory makes of the posted fields, per application
Built == [which \in {"app", "aws_scheduler"} |-> {schedule_factory(which, data) : data \in CreateInputs}]

\* a creation route calls schedule_factory(data): out is what the function
\* makes of the posted fields, put_ok the table's answer to put_item.  The
\* caller gets the record back, or the exception.
CreateSchedule(out, put_ok) ==
    /\ out \in Built[app]
    /\ LET item == out.item
       IN  /\ (out.raised # "-" => put_ok)
           /\ ret' = [fn |-> "schedule_factory",
                      value |-> IF out.raised # "-" THEN out.raised
                                ELSE IF put_ok THEN "returned" ELSE "ClientError(PutItem)",
                      item |-> IF put_ok THEN out.item ELSE <<>>]
           /\ store' = IF out.raised = "-" /\ put_ok
                       THEN [store EXCEPT ![out.item[1].name] = out.item]
                       ELSE store
    /\ UNCHANGED <<other, now, cron_expression, until_date, app, ec2, pc, active_schedules,
                   schedule, instances, will_execute, evaluated_at, work, calls, result,
                   applied_on_instances, response>>

InitCreate ==
    /\ now = MkTime(MkDate(2025, 1, 1), 22, 0, 0, 0)
    /\ cron_expression = MainCron
    /\ until_date = MainUntil
    /\ ret = NotCalled
    /\ app \in {"app", "aws_scheduler"}
    /\ store = [n \in Names |-> <<>>]
    /\ ec2 = [id \in Ids |-> IF id = "i-web" THEN "running" ELSE "stopped"]
    /\ pc = "idle"
    /\ active_schedules = <<>>
    /\ schedule = <<>>
    /\ instances = <<>>
    /\ will_execute = "-"
    /\ evaluated_at = <<>>
    /\ work = <<>>
    /\ calls = <<>>
    /\ result = <<>>
    /\ applied_on_instances = "[]"
    /\ response = NoResponse
    /\ other = NotRunning

NextCreate ==
    \/ \E out \in Built["app"] \cup Built["aws_scheduler"], put_ok \in BOOLEAN :
            CreateSchedule(out, put_ok)
    \/ Load
    \/ Describe
    \/ Evaluate
    \/ \E api_ok \in BOOLEAN : Act(api_ok)
    \/ Return
    \/ Ec2Progress

SpecCreate == InitCreate /\ [][NextCreate]_vars

(***************************************************************************)
(* The periodic sweep of src/aws_scheduler/app.py: the interval job runs   *)
(* scan_for_action every 60 seconds, counted from the moment the scheduler *)
(* was started, so at a fixed second of every minute.                      *)
(***************************************************************************)
\* add_job(..., trigger="interval", seconds=60)
IntervalSeconds == 60

\* the number of times the job fires in a run
NumFires == 5

\* the first firing: two minutes before 22:00, on the minute or half a
\* minute past it, as the start of the scheduler has it
FirstFires == {MkTime(MkDate(2025, 1, 1), 21, 58, s, 0) : s \in {0, 30}}

SecondOfDay(t) == t.hour * 3600 + t.minute * 60 + t.second

\* the instant k seconds after t, within the day
AddSeconds(t, k) ==
    LET total == SecondOfDay(t) + k
    IN  [t EXCEPT !.hour = total \div 3600,
                  !.minute = (total % 3600) \div 60,
                  !.second = total % 60]

PeriodicStores ==
    {[n \in Names |-> IF n = "nightly" THEN <<a>> ELSE IF n = "morning" THEN b ELSE <<>>] :
        a \in {Schedule("nightly", <<"s", "t", "o", "p">>, "true", R_22_00, u) :
                 u \in {None, Str(D_2025_01_01)}},
        b \in {<<>>} \cup {<<x>> : x \in MorningSchedules}}

InitPeriodic ==
    /\ now \in FirstFires
    /\ cron_expression = MainCron
    /\ until_date = MainUntil
    /\ ret = NotCalled
    /\ app = "aws_scheduler"
    /\ store \in PeriodicStores
    /\ ec2 = InitialStates
    /\ pc = "idle"
    /\ active_schedules = <<>>
    /\ schedule = <<>>
    /\ instances = <<>>
    /\ will_execute = "-"
    /\ evaluated_at = <<>>
    /\ work = <<>>
    /\ calls = <<>>
    /\ result = <<>>
    /\ applied_on_instances = "[]"
    /\ response = NoResponse
    /\ other = NotRunning

\* the job fires: the scheduler runs scan_for_action once per interval
Fire ==
    /\ response = NoResponse
    /\ Load

\* the run of the job is over and the interval elapses: the job is due again
IntervalElapses ==
    /\ pc = "idle"
    /\ response # NoResponse
    /\ \E first \in FirstFires :
        /\ first.second = now.second
        /\ SecondOfDay(now) + IntervalSeconds < SecondOfDay(first) + NumFires * IntervalSeconds
    /\ now' = AddSeconds(now, IntervalSeconds)
    /\ response' = NoResponse
    /\ UNCHANGED <<other, cron_expression, until_date, ret, app, store, ec2, pc,
                   active_schedules, schedule, instances, will_execute, evaluated_at,
                   work, calls, result, applied_on_instances>>

NextPeriodic ==
    \/ Fire
    \/ Describe
    \/ Evaluate
    \/ \E api_ok \in BOOLEAN : Act(api_ok)
    \/ Return
    \/ Ec2Progress
    \/ IntervalElapses

SpecPeriodic == InitPeriodic /\ [][NextPeriodic]_vars

(***************************************************************************)
(* Claims                                                                  *)
(***************************************************************************)
StartSpellings == {<<"s", "t", "a", "r", "t">>, <<"S", "T", "A", "R", "T">>, <<"S", "t", "a", "r", "t">>}
StopSpellings == {<<"s", "t", "o", "p">>, <<"S", "T", "O", "P">>, <<"S", "t", "o", "p">>}

LastCall(log) == log[Len(log)]

\* the step is one call of instance_action by the sweep
ActStep == pc = "act" /\ work' # work

\* C1: instance_action issues start_instances exactly for (start, stopped),
\* recorded as stopped -> pending, and stop_instances exactly for
\* (stop, running), recorded as running -> stopping, the action compared
\* without regard to case; for every other (action, state) pair it issues no
\* request and records no transition.
C1_ResolverTwoTransitions ==
    [][ActStep =>
        LET a == schedule[1].action
            st == work[1].instance.CurrentState
            id == work[1].instance.InstanceId
            isStart == a \in StartSpellings /\ st = "stopped"
            isStop == a \in StopSpellings /\ st = "running"
            issued(op) ==
                /\ Len(calls') = Len(calls) + 1
                /\ SubSeq(calls', 1, Len(calls)) = calls
                /\ LastCall(calls').op = op
                /\ LastCall(calls').InstanceId = id
            recorded(from, to) ==
                LastCall(calls').ok /\ result' # <<>> =>
                    /\ Len(result'[1].state_changes) = 1
                    /\ result'[1].state_changes[1].instance_id = id
                    /\ result'[1].state_changes[1].from_state = from
                    /\ result'[1].state_changes[1].to_state = to
        IN  /\ isStart => issued("start_instances") /\ recorded("stopped", "pending")
            /\ isStop => issued("stop_instances") /\ recorded("running", "stopping")
            /\ ~isStart /\ ~isStop =>
                /\ calls' = calls
                /\ ec2' = ec2
                /\ result' # <<>> /\ result'[1].state_changes = <<>>
    ]_vars

\* C1 witness: a schedule spelled 'Stop' has had stop_instances issued for a
\* running instance, recorded as running -> stopping
C1_Witness ==
    /\ pc = "act"
    /\ schedule[1].action = <<"S", "t", "o", "p">>
    /\ calls # <<>> /\ LastCall(calls).op = "stop_instances" /\ LastCall(calls).ok
    /\ result # <<>> /\ Len(result[1].state_changes) = 1
    /\ result[1].state_changes[1].to_state = "stopping"

\* the rule is minute m, hour h and wildcards elsewhere
IsDailyRule(cron, m, h) == cron = Cron(<<m, h, Star, Star, Star>>)

\* C2: for the rule '0 22 * * *' without expiration, the matcher of the
\* periodic sweep (src/aws_scheduler/app.py) answers True only at instants of
\* hour 22, minute 0, so the sweep requests the stop only in that minute.
C2_MinuteGranularity ==
    (/\ app = "aws_scheduler"
     /\ pc \in {"act", "loop"}
     /\ evaluated_at # <<>>
     /\ IsDailyRule(schedule[1].cron_expression, T0, T22)
     /\ IsNone(schedule[1].until)
     /\ (will_execute = "True" \/ \E k \in 1..Len(calls) : calls[k].schedule = schedule[1].name))
    => (evaluated_at[1].hour = 22 /\ evaluated_at[1].minute = 0)

\* the text is a calendar date and the date of t is strictly after it
Expired(until, t) ==
    /\ until.type = "str"
    /\ StrptimeOk(until.text)
    /\ ToOrdinal(DateOf(t)) > ToOrdinal(Strptime(until.text))

\* the three matchers answer False for every rule once the expiration has
\* passed
ExpiredNeverDue ==
    \A c \in Rules, u \in Untils, t \in Nows :
        Expired(u, t) =>
            /\ app_should_execute(c, u, t) = "False"
            /\ aws_should_execute(c, u, t) = "False"
            /\ should_process_run(c, u, t) = "False"

ShouldExecutes == {"app.should_execute", "aws_scheduler.should_execute"}

\* the matcher fn applied to (cron, until, t)
Matcher(fn, cron, until, t) ==
    IF fn = "app.should_execute" THEN app_should_execute(cron, until, t)
    ELSE IF fn = "aws_scheduler.should_execute" THEN aws_should_execute(cron, until, t)
    ELSE should_process_run(cron, until, t)

\* the rule has five non-empty fields
FiveFields(cron) ==
    /\ ~IsNone(cron)
    /\ Len(cron.fields) = 5
    /\ \A i \in 1..5 : Len(cron.fields[i]) > 0

NoExpiration(until) == IsNone(until) \/ until = Str(Empty)

\* C4: for '* * * * *', with no expiration or one on or after the date of
\* now, should_execute answers True at every instant, whatever its seconds
\* and microseconds.
C4_AllWildcardAlwaysDue ==
    (/\ ret.fn \in ShouldExecutes
     /\ cron_expression = Cron(<<Star, Star, Star, Star, Star>>)
     /\ \/ NoExpiration(until_date)
        \/ /\ until_date.type = "str" /\ StrptimeOk(until_date.text)
           /\ ~Expired(until_date, now))
    => ret.value = "True"

D_9999_12_31 == <<"9", "9", "9", "9", "-", "1", "2", "-", "3", "1">>

\* C5: without expiration (None or '') the result of either should_execute
\* is that of the timing fields alone, that is the result the same rule has
\* with an expiration that never passes.
C5_AbsentExpirationAlwaysEligible ==
    (ret.fn \in ShouldExecutes /\ NoExpiration(until_date))
    => ret.value = Matcher(ret.fn, cron_expression, Str(D_9999_12_31), now)

\* the rule with day-of-week 0 turned into 7 and 7 into 0
SwapSunday(cron) == Cron([cron.fields EXCEPT ![5] = IF @ = T0 THEN T7 ELSE T0])

BothDayFields(cron) ==
    /\ FiveFields(cron)
    /\ cron.fields[3] # Star /\ IntParses(cron.fields[3])
    /\ cron.fields[5] # Star /\ IntParses(cron.fields[5])

\* the weekday of t is the one the cron day-of-week n denotes
OnCronWeekday(n, t) ==
    IF n \in {0, 7} THEN Weekday(DateOf(t)) = 6 ELSE Weekday(DateOf(t)) = n - 1

Conjunctive(cron, t) ==
    /\ t.day = IntOf(cron.fields[3])
    /\ OnCronWeekday(IntOf(cron.fields[5]), t)

\* C7 as claimed: with both day fields literal, either should_execute answers
\* True only at a now whose day of month and weekday both match.
C7_DayFieldsConjunctive ==
    (ret.fn \in ShouldExecutes /\ BothDayFields(cron_expression) /\ ret.value = "True")
    => Conjunctive(cron_expression, now)

\* C7 as amended: the minute matchers (src/app.py, src/cron_checker.py) are
\* conjunctive; in src/aws_scheduler/app.py a literal day-of-week replaces the
\* day-of-month field: the answer is the one the rule has with day-of-month '*'.
C7_ConjunctiveInAppOverriddenInAws ==
    /\ (/\ ret.fn \in {"app.should_execute", "cron_checker.should_process_run"}
        /\ BothDayFields(cron_expression) /\ ret.value = "True")
       => Conjunctive(cron_expression, now)
    /\ (ret.fn = "aws_scheduler.should_execute" /\ BothDayFields(cron_expression))
       => ret.value = aws_should_execute(
                         Cron([cron_expression.fields EXCEPT ![3] = Star]), until_date, now)

\* C7 witness: the projection has answered True for day-of-month 5 and
\* day-of-week 0 on a day that is not the 5th
C7_Witness ==
    /\ ret.fn = "aws_scheduler.should_execute" /\ ret.value = "True"
    /\ BothDayFields(cron_expression)
    /\ cron_expression.fields[3] = T5 /\ cron_expression.fields[5] = T0
    /\ now.day # 5

\* a malformed schedule: a field count other than five, a field that is
\* neither '*' nor an integer, an expiration text that is no date, or a
\* literal day and month that name no calendar date of the year of t
Malformed(cron, until, t) ==
    \/ IsNone(cron)
    \/ Len(Split(cron.fields)) # 5
    \/ \E i \in 1..5 : cron.fields[i] # Star /\ ~IntParses(cron.fields[i])
    \/ until.type = "str" /\ Len(until.text) > 0 /\ ~StrptimeOk(Strip(until.text))
    \/ /\ cron.fields[5] = Star
       /\ ~ValidDate(t.year,
                     IF cron.fields[4] = Star THEN t.month ELSE IntOf(cron.fields[4]),
                     IF cron.fields[3] = Star THEN t.day ELSE IntOf(cron.fields[3]))

\* both should_execute answer False, and nothing else, on malformed input
MalformedNeverDue ==
    \A c \in Rules, u \in Untils, t \in Nows :
        Malformed(c, u, t) =>
            /\ aws_should_execute(c, u, t) = "False"
            /\ app_should_execute(c, u, t) = "False"

\* C8: the matcher fails closed: on a malformed rule or expiration it answers
\* False and raises nothing, so the sweep takes the schedule as not due and
\* stands at the head of its loop, ready for the remaining schedules.
C8_MatcherFailsClosed ==
    /\ MalformedNeverDue
    /\ (pc \in {"act", "loop"} /\ evaluated_at # <<>>
        /\ Malformed(schedule[1].cron_expression, schedule[1].until, evaluated_at[1]))
       => /\ will_execute = "False"
          /\ pc = "loop"
          /\ response = NoResponse
    /\ response.kind = "raised" =>
        response.value \in {"KeyError", "TypeError", "ClientError(Scan)",
                            "ClientError(DescribeInstances)"}

\* C8 witness: the periodic sweep has taken a schedule with a non-integer
\* minute as not due and has another active schedule left to visit
C8_Witness ==
    /\ app = "aws_scheduler"
    /\ pc = "loop" /\ evaluated_at # <<>>
    /\ schedule[1].cron_expression = R_junk
    /\ will_execute = "False"
    /\ active_schedules # <<>>

\* the step is a call of instance_action whose request the compute API rejects
RejectedStep == ActStep /\ calls' # calls /\ ~LastCall(calls').ok

\* C9: a rejected start or stop request is turned into one Error Record
\* (instance id, region, message); no exception leaves instance_action and
\* the request is not repeated.
C9_RejectionBecomesErrorRecord ==
    [][RejectedStep =>
        /\ response'.kind # "raised"
        /\ Len(calls') = Len(calls) + 1
        /\ result' # <<>>
        /\ Len(result'[1].errors) = 1
        /\ result'[1].errors[1].instance_id = work[1].instance.InstanceId
        /\ result'[1].errors[1].region = work[1].region
    ]_vars

\* C10: a rejected request never keeps the sweep from the later instances of
\* the schedule, the later regions and the later schedules: the sweep goes on
\* with everything it had left.
C10_RejectionDoesNotBlock ==
    [][RejectedStep =>
        /\ pc' \in {"act", "loop"}
        /\ work' = Tail(work)
        /\ active_schedules' = active_schedules
        /\ response' = NoResponse
    ]_vars

\* the value a sweep returned is a result dict (not None, not the empty list)
IsSweepResult(v) == v \notin {"None", "[]"}

\* the requests of the log with the given operation and outcome
Requests(log, op, ok) == {k \in 1..Len(log) : log[k].op = op /\ log[k].ok = ok}

\* C11: the result returned by a sweep of scan_for_action in which exactly
\* one start request failed and the other start requests succeeded holds one
\* Transition Record for each started instance and exactly one Error Record,
\* that of the failed instance.
C11_OneFailureStillRecordsTheRest ==
    (/\ app = "aws_scheduler"
     /\ response.kind = "returned"
     /\ Cardinality(Requests(calls, "start_instances", FALSE)) = 1
     /\ Requests(calls, "start_instances", TRUE) # {}
     /\ Requests(calls, "stop_instances", FALSE) = {})
    => LET v == response.value
           failed == CHOOSE k \in Requests(calls, "start_instances", FALSE) : TRUE
       IN  /\ IsSweepResult(v)
           /\ Len(v.state_changes) = Cardinality(Requests(calls, "start_instances", TRUE))
           /\ Len(v.errors) = 1
           /\ v.errors[1].instance_id = calls[failed].InstanceId

\* C12: the Sweep Result a run of scan_for_action returns aggregates the run:
\* schedules_processed is the number of active schedules loaded,
\* instances_modified the number of requests that succeeded in the run, and
\* that number is the length of its list of Transition Records.
C12_SweepResultAggregatesTheRun ==
    (/\ app = "aws_scheduler"
     /\ response.kind = "returned"
     /\ \E k \in 1..Len(calls) : calls[k].ok)
    => LET v == response.value
       IN  /\ IsSweepResult(v)
           /\ v.schedules_processed = Len(get_active_schedules(store))
           /\ v.instances_modified = Cardinality({k \in 1..Len(calls) : calls[k].ok})
           /\ v.instances_modified = Len(v.state_changes)

StoredActive(item) == store[item.name] = <<item>> /\ item.active = "true"

\* C14: inactive schedules are never evaluated: every schedule a sweep has
\* loaded, visits or hands to should_execute, and every schedule a request is
\* issued for, is stored with active = "true"; a schedule stored as inactive
\* causes no request, even when its rule matches now.
C14_InactiveNeverEvaluated ==
    /\ \A k \in 1..Len(active_schedules) : StoredActive(active_schedules[k])
    /\ schedule # <<>> => StoredActive(schedule[1])
    /\ \A k \in 1..Len(calls) :
        /\ store[calls[k].schedule] # <<>>
        /\ store[calls[k].schedule][1].active = "true"
    /\ \A n \in Names :
        (store[n] # <<>> /\ store[n][1].active # "true") =>
            /\ \A k \in 1..Len(calls) : calls[k].schedule # n
            /\ schedule # <<>> => schedule[1].name # n

\* C14 witness: a sweep has returned while the table holds an inactive
\* 'nightly' schedule whose rule matches now and whose instance i-web is
\* running, the state its action applies to
C14_Witness ==
    /\ response.kind = "returned"
    /\ store["nightly"] # <<>>
    /\ store["nightly"][1].active = "false"
    /\ store["nightly"][1].action = <<"s", "t", "o", "p">>
    /\ should_execute(app, store["nightly"][1], now) = "True"
    /\ ec2["i-web"] = "running"

\* C15: the sweep is idempotent within a due minute: a request is issued only
\* for an instance that is, at that moment, in the precondition state of the
\* operation (stopped for start, running for stop); an instance that has left
\* it after a successful request (stopped -> pending, running -> stopping) is
\* passed over by a later sweep with no request and no change.
C15_SecondSweepIsNoOp ==
    [][/\ (calls' # calls /\ calls' # <<>>) =>
            LET c == LastCall(calls')
            IN  /\ c.op = "start_instances" => ec2[c.InstanceId] = "stopped"
                /\ c.op = "stop_instances" => ec2[c.InstanceId] = "running"
       /\ (ActStep /\ ec2[work[1].instance.InstanceId] \in {"pending", "stopping"}) =>
            /\ calls' = calls
            /\ ec2' = ec2
    ]_vars

\* C15 witness: in src/app.py, whose matcher is True only within the minute,
\* a sweep visiting the due schedule has found i-web already stopping (a
\* stop accepted in an earlier sweep) and has passed it over with no request
C15_Witness ==
    /\ app = "app"
    /\ pc = "act"
    /\ will_execute = "True"
    /\ schedule[1].action \in StopSpellings
    /\ instances[1]["eu-central-1"] # <<>>
    /\ instances[1]["eu-central-1"][1].InstanceId = "i-web"
    /\ instances[1]["eu-central-1"][1].CurrentState = "stopping"
    /\ Len(work) < Len(Flatten(instances[1], REGIONS_EC2))
    /\ \A k \in 1..Len(calls) : calls[k].InstanceId # "i-web"

\* the Name contains 'ci' or 'terminated' once both are put in lower case
Protected(name) ==
    \/ Contains(<<"c", "i">>, Lower(name))
    \/ Contains(<<"t", "e", "r", "m", "i", "n", "a", "t", "e", "d">>, Lower(name))

\* the instance ids a filter result lists, over all its regions
ListedIn(snapshot) ==
    UNION {{snapshot[r][k].InstanceId : k \in 1..Len(snapshot[r])} : r \in DOMAIN snapshot}

\* whatever the selector and the machines' states, the filter lists no
\* instance with a protected Name
FilterExcludesProtected ==
    \A for_tag \in TagSelectors, states \in StateChoices :
        \A id \in ListedIn(get_filtered_ec2_instances(for_tag, states)) :
            ~Protected(Catalog[id].Name)

\* C16: get_filtered_ec2_instances never returns an instance whose Name
\* contains 'CI' or 'terminated', compared without regard to case, whatever
\* the instance's state and the tag selector; so no snapshot of a sweep lists
\* such an instance and no sweep issues a start or stop request for one.
C16_ProtectedNeverReturned ==
    /\ FilterExcludesProtected
    /\ instances # <<>> =>
        \A id \in ListedIn(instances[1]) : ~Protected(Catalog[id].Name)
    /\ \A k \in 1..Len(work) : ~Protected(Catalog[work[k].instance.InstanceId].Name)
    /\ \A k \in 1..Len(calls) : ~Protected(Catalog[calls[k].InstanceId].Name)

\* C16 witness: a sweep acts for the due schedule 'nightly' while i-ci (Name
\* 'ci-runner', tagged nightly) is running; its snapshot does not list i-ci
C16_Witness ==
    /\ pc = "act"
    /\ will_execute = "True"
    /\ schedule[1].name = "nightly"
    /\ schedule[1].action \in StopSpellings
    /\ Catalog["i-ci"].ScheduledFor = "nightly"
    /\ ec2["i-ci"] = "running"
    /\ "i-ci" \notin ListedIn(instances[1])
    /\ calls # <<>>
    /\ work = <<>> \/ work[1].region # "eu-central-1"

\* C17: every instance get_filtered_ec2_instances returns for a selector
\* carries the ScheduledFor tag with exactly that value, for every stored
\* schedule name the sweep passes, the empty name included; the sweep never
\* acts on an instance that is untagged or tagged for another schedule.
C17_OnlyInstancesOfTheSchedule ==
    /\ (pc \in {"evaluate", "act"} /\ instances # <<>>) =>
        \A id \in ListedIn(instances[1]) : Catalog[id].ScheduledFor = schedule[1].name
    /\ \A k \in 1..Len(calls) : Catalog[calls[k].InstanceId].ScheduledFor = calls[k].schedule

\* the instances of the region that are in an admitted state, carry the
\* selector's tag when a selector is given, and have no protected Name
Matching(region, for_tag, states) ==
    {id \in Ids :
        /\ Catalog[id].region = region
        /\ states[id] \in {"pending", "running", "stopping", "stopped", "shutting-down"}
        /\ (for_tag = "" \/ Catalog[id].ScheduledFor = for_tag)
        /\ ~Protected(Catalog[id].Name)}

\* C18: every mapping get_filtered_ec2_instances returns has exactly the
\* configured regions eu-central-1, us-east-1 and ap-south-1 as its keys; a
\* region with no matching instance maps to the empty list, and each instance
\* is listed under the region it was read from.
C18_EveryRegionIsAKey ==
    ret.fn = "get_filtered_ec2_instances" =>
        LET r == instances[1]
        IN  /\ DOMAIN r = {"eu-central-1", "us-east-1", "ap-south-1"}
            /\ \A region \in DOMAIN r :
                /\ \A k \in 1..Len(r[region]) :
                       Catalog[r[region][k].InstanceId].region = region
                /\ {r[region][k].InstanceId : k \in 1..Len(r[region])}
                       = Matching(region, ret.value, ec2)
                /\ Matching(region, ret.value, ec2) = {} => r[region] = <<>>

\* C18 witness: a call has returned a mapping in which us-east-1 has no
\* instance and eu-central-1 has some
C18_Witness ==
    /\ ret.fn = "get_filtered_ec2_instances"
    /\ instances[1]["us-east-1"] = <<>>
    /\ instances[1]["eu-central-1"] # <<>>

ScanRejected == [kind |-> "raised", value |-> "ClientError(Scan)"]

\* C19: a sweep whose load of the active schedules fails, fails as a whole:
\* every start of a sweep either loads all the active schedules of the table
\* or raises the failure to its caller with no schedule visited, no request
\* issued and no instance changed; after such a failure the sweep is idle
\* again, so the next tick can start a sweep, which loads the schedules anew.
C19_LoadFailureFailsTheSweep ==
    /\ [](response = ScanRejected =>
            /\ pc = "idle"
            /\ calls = <<>>
            /\ active_schedules = <<>> /\ work = <<>>
            /\ ENABLED Load)
    /\ [][(pc = "idle" /\ (pc' # pc \/ response' # response)) =>
            \/ /\ pc' = "loop"
               /\ response' = NoResponse
               /\ active_schedules' = get_active_schedules(store)
            \/ /\ pc' = "idle"
               /\ response' = ScanRejected
               /\ calls' = <<>>
               /\ ec2' = ec2
               /\ active_schedules' = <<>> /\ work' = <<>>
       ]_vars

\* C19 witness: the periodic sweep has failed at its load while the table
\* held an active schedule that was due and had a running instance to stop
C19_Witness ==
    /\ app = "aws_scheduler"
    /\ pc = "idle"
    /\ response = ScanRejected
    /\ calls = <<>>
    /\ store["nightly"] # <<>>
    /\ store["nightly"][1].active = "true"
    /\ store["nightly"][1].action = <<"s", "t", "o", "p">>
    /\ should_execute(app, store["nightly"][1], now) = "True"
    /\ ec2["i-web"] = "running"

\* C20: a sweep of scan_for_action always runs to completion: once it has
\* loaded the active schedules it ends only by returning its result, after
\* the last schedule was visited, whatever the compute API rejects meanwhile.
C20_SweepRunsToCompletion ==
    [][(app = "aws_scheduler" /\ pc \in {"loop", "evaluate", "act"} /\ pc' = "idle") =>
            /\ response'.kind = "returned"
            /\ active_schedules = <<>>
    ]_vars

\* C21: sweeps do not overlap: no request of the sweep starts while another
\* is running, so two sweeps never both read an instance in its precondition
\* state and both submit the same request for it.
C21_SweepsDoNotOverlap ==
    /\ ~(pc \in {"evaluate", "act"} /\ other.pc \in {"evaluate", "act"})
    /\ \A i \in 1..Len(calls), j \in 1..Len(other.calls) :
        ~(calls[i].InstanceId = other.calls[j].InstanceId /\ calls[i].op = other.calls[j].op)

\* the fields the creation must have been given
RequiredFields == {"name", "action"} \cup TimingFields

Lacking(data) == ~(RequiredFields \subseteq DOMAIN data)

\* a step in which schedule_factory answered its caller
Answered(value) == ret' # ret /\ ret'.fn = "schedule_factory" /\ ret'.value = value

\* C22: schedule_factory validates its required fields before persisting: a
\* request lacking the name, the action or one of the five timing fields
\* fails to the caller (KeyError) and the failure leaves the store as it
\* was; a call that succeeds returns exactly the record it wrote to the store.
C22_CreationValidatesThenPersists ==
    /\ \A which \in {"app", "aws_scheduler"}, data \in CreateInputs :
          Lacking(data) => schedule_factory(which, data).raised = "KeyError"
    /\ [][/\ Answered("KeyError") => store' = store
          /\ Answered("returned") =>
                /\ Len(ret'.item) = 1
                /\ store' = [store EXCEPT ![ret'.item[1].name] = ret'.item]]_vars

\* a creation lacking a field has failed on a store that holds a schedule
C22_Witness ==
    /\ ret.fn = "schedule_factory"
    /\ ret.value = "KeyError"
    /\ store["nightly"] # <<>>

\* the minute, hour, day and month of an instant, in the order of the fields
Components(t) == <<t.minute, t.hour, t.day, t.month>>

\* the first four fields are wildcards or integers and the last is a wildcard
NumericRule(cron) ==
    /\ FiveFields(cron)
    /\ cron.fields[5] = Star
    /\ \A i \in 1..4 : cron.fields[i] = Star \/ IntParses(cron.fields[i])

\* every non-wildcard field denotes the integer the instant has there
ComponentsEqual(cron, t) ==
    \A i \in 1..4 : cron.fields[i] = Star \/ IntOf(cron.fields[i]) = Components(t)[i]

\* C23: a non-wildcard minute, hour, day-of-month or month field is compared
\* with the component of now as an integer (so '05' denotes 5): with the
\* weekday a wildcard and an expiration that has not passed, should_execute
\* of either application answers True exactly at the instants whose
\* components equal the integers of the fields.
C23_FieldsComparedAsIntegers ==
    (/\ ret.fn \in ShouldExecutes
     /\ NumericRule(cron_expression)
     /\ until_date.type = "str"
     /\ StrptimeOk(until_date.text)
     /\ ~Expired(until_date, now))
    => (ret.value = "True" <=> ComponentsEqual(cron_expression, now))

\* a step in which the sweep calls describe_instances for the schedule at
\* the head of the loop: the call answers, or it is rejected
DescribeStep ==
    /\ pc = "loop"
    /\ active_schedules # <<>>
    /\ \/ pc' = "evaluate"
       \/ /\ response' # response
          /\ response'.kind = "raised"
          /\ response'.value = "ClientError(DescribeInstances)"

\* C24: the instance filter is invoked only for schedules first found due:
\* whenever the sweep calls describe_instances for a schedule, should_execute
\* has already returned True for that schedule in this sweep.
C24_FilterOnlyForDueSchedules ==
    [][DescribeStep =>
          /\ schedule # <<>>
          /\ schedule[1] = active_schedules[1]
          /\ will_execute = "True"]_vars

\* C25: a sweep never changes the schedule store, not even the active flag
\* of an expired schedule: the only step that changes the store is a
\* creation that succeeded, and it replaces the whole record stored under
\* the name of the created schedule, leaving every other record as it was.
C25_OnlyCreationChangesTheStore ==
    [][store' # store =>
          /\ Answered("returned")
          /\ UNCHANGED <<pc, active_schedules, schedule, instances, will_execute, work, calls>>
          /\ store'[ret'.item[1].name] = ret'.item
          /\ \A n \in Names \ {ret'.item[1].name} : store'[n] = store[n]]_vars

\* the sweep has evaluated a stored schedule whose expiration has passed, and
\* the schedule is still stored as active
C25_Witness ==
    /\ pc = "loop"
    /\ evaluated_at # <<>>
    /\ will_execute = "False"
    /\ schedule # <<>>
    /\ store[schedule[1].name] = schedule
    /\ schedule[1].active = "true"
    /\ ~IsNone(schedule[1].until)
    /\ Expired(schedule[1].until, evaluated_at[1])

\* C26: within one sweep at most one start or stop request is issued per
\* instance: no two requests of the sweep name the same instance.
C26_OneRequestPerInstance ==
    \A i, j \in 1..Len(calls) : calls[i].InstanceId = calls[j].InstanceId => i = j

\* the text of the status a creation was given, 'false' when it was given none
StatusText(data) ==
    IF "status" \in DOMAIN data THEN PyStr(data["status"]) ELSE <<"f", "a", "l", "s", "e">>

\* schedule_factory stores active = 'true' exactly for a status whose
\* lower-cased text is 'true'
StoresLowerCasedStatus(which, data) ==
    LET out == schedule_factory(which, data)
    IN  out.raised = "-" =>
            (out.item[1].active = "true" <=> Lower(StatusText(data)) = <<"t", "r", "u", "e">>)

\* the stored records a sweep picks up
PickedUp == {store[n][1] : n \in {m \in Names : store[m] # <<>> /\ store[m][1].active = "true"}}

\* C27: a schedule is picked up by sweeps exactly when its stored 'active'
\* is the string 'true', which schedule_factory stores exactly for a status
\* whose lower-cased text is 'true' ('false' is stored for an absent status):
\* a sweep loads the stored records with active = 'true' and no other, and
\* only such a record is evaluated or causes a start or stop request.
C27_OnlyActiveTrueIsPickedUp ==
    /\ \A which \in {"app", "aws_scheduler"}, data \in CreateInputs :
          StoresLowerCasedStatus(which, data)
    /\ [](/\ \A k \in 1..Len(active_schedules) : active_schedules[k].active = "true"
          /\ schedule # <<>> => schedule[1].active = "true")
    /\ [][(pc = "idle" /\ pc' = "loop") =>
             {active_schedules'[k] : k \in 1..Len(active_schedules')} = PickedUp]_vars
    /\ [][calls' # calls /\ calls' # <<>> =>
             /\ schedule[1].active = "true"
             /\ calls'[Len(calls')].schedule = schedule[1].name]_vars

\* 'nightly' was created with a status other than true and 'morning', created
\* after it with status TRUE, has been found due by a sweep and has caused a
\* request, while no request was made for 'nightly'
C27_Witness ==
    /\ store["nightly"] # <<>>
    /\ store["nightly"][1].active = "yes"
    /\ ret.fn = "schedule_factory"
    /\ ret.value = "returned"
    /\ ret.item[1].name = "morning"
    /\ ret.item[1].active = "true"
    /\ schedule = ret.item
    /\ will_execute = "True"
    /\ calls # <<>>
    /\ \A k \in 1..Len(calls) : calls[k].schedule = "morning"

\* the instant lies in the minute 22:00 of its day
InsideMinute(t, h, m) == t.hour = h /\ t.minute = m

\* C28: no due minute is missed: the interval job sweeps once in every
\* minute, and the sweep that evaluates the active, unexpired rule
\* '0 22 * * *' at an instant inside the minute 22:00 finds it due, so that
\* the action is requested in that minute.
C28_NoDueMinuteMissed ==
    (/\ pc \in {"act", "loop"}
     /\ evaluated_at # <<>>
     /\ schedule # <<>>
     /\ IsDailyRule(schedule[1].cron_expression, T0, T22)
     /\ schedule[1].active = "true"
     /\ (IsNone(schedule[1].until) \/ ~Expired(schedule[1].until, evaluated_at[1]))
     /\ InsideMinute(evaluated_at[1], 22, 0))
    => will_execute = "True"

====
